---- MODULE Spec2Model ----
(***************************************************************************)
(* The /ws relay session of src/src/index.tsx: one WebSocket connection    *)
(* with its usage accumulator, the asynchronous message handler (header    *)
(* parse, account lookup, quota checks, ACK reply), the periodic and the   *)
(* close-time usage flush, and the D1 tables the sessions share.           *)
(***************************************************************************)
EXTENDS Integers, Sequences, FiniteSets, TLC

\* ---------------------------------------------------------------- bounds
NumSessions == 3
MaxMsgs == 2
MaxTime == 1

Sessions == 1..NumSessions
Far == MaxTime + 1

\* ------------------------------------------------------- program constants
MinHeaderLen == 24
FallbackCmdOffset == 18
Version == 0
CmdTcp == 1

\* ------------------------------------------------------------ wire format
HexDigits == <<"0","1","2","3","4","5","6","7","8","9","a","b","c","d","e","f">>

\* b.toString(16).padStart(2,'0')
Hex2(b) == HexDigits[(b \div 16) + 1] \o HexDigits[(b % 16) + 1]

RECURSIVE HexJoin(_)
HexJoin(bytes) == IF bytes = <<>> THEN "" ELSE Hex2(Head(bytes)) \o HexJoin(Tail(bytes))

\* Array.prototype.slice / String.prototype.substring on 0-based [from, to)
Slice(s, from, to) ==
  LET hi == IF to > Len(s) THEN Len(s) ELSE to
  IN IF from >= hi THEN SubSeq(s, 1, 0) ELSE SubSeq(s, from + 1, hi)

\* the 8-4-4-4-12 rendering of the 16 id bytes
UuidFmt(uuidBytes) ==
  LET uuidParts == HexJoin(uuidBytes)
  IN Slice(uuidParts, 0, 8) \o "-" \o Slice(uuidParts, 8, 12) \o "-" \o
     Slice(uuidParts, 12, 16) \o "-" \o Slice(uuidParts, 16, 20) \o "-" \o
     Slice(uuidParts, 20, 32)

\* the header layout: version, id, addon length, addon, command, port, type, address
EncodeHeader(ver, id, addon, cmd, port, atype, addr) ==
  <<ver>> \o id \o <<Len(addon)>> \o addon \o <<cmd>> \o
  <<port \div 256, port % 256>> \o <<atype>> \o addr

Uuid1Bytes == <<171, 205, 0, 0, 0, 0, 0, 0, 0, 0, 0, 0, 0, 0, 0, 1>>
Uuid2Bytes == <<171, 205, 0, 0, 0, 0, 0, 0, 0, 0, 0, 0, 0, 0, 0, 2>>
U1 == UuidFmt(Uuid1Bytes)
U2 == UuidFmt(Uuid2Bytes)

HdrU1 == EncodeHeader(Version, Uuid1Bytes, <<>>, CmdTcp, 443, 1, <<10, 0, 0, 1>>) \o <<7>>
HdrU2 == EncodeHeader(Version, Uuid2Bytes, <<>>, CmdTcp, 443, 1, <<10, 0, 0, 2>>) \o <<7>>
HdrBadCmd == EncodeHeader(Version, Uuid1Bytes, <<>>, 9, 443, 1, <<10, 0, 0, 1>>) \o <<7>>
Trunc3 == SubSeq(HdrU1, 1, 3)

\* evt.data as it reaches the handler: bytes (string or ArrayBuffer), a Blob, or neither
Bytes(f) == [kind |-> "bytes", chunk |-> f]
Inputs ==
  { Bytes(f) : f \in {HdrU1, HdrU2, HdrBadCmd, Trunc3} }
  \cup { [kind |-> "blob", chunk |-> Trunc3], [kind |-> "other", chunk |-> <<>>] }

\* ------------------------------------------------------------ header codec
Throw == [throw |-> TRUE]
Incomplete == [err |-> "Incomplete"]
Invalid == [err |-> "Invalid"]

\* HeaderCodec.decode of the native parser (wasmModule.parse_vless_header)
WasmDecode(chunk) ==
  IF Len(chunk) < MinHeaderLen THEN Incomplete
  ELSE IF chunk[1] # Version THEN Invalid
  ELSE LET L == chunk[18]
           base == 18 + L
       IN IF Len(chunk) < base + 5 THEN Invalid
          ELSE LET cmd == chunk[base + 1]
                   port == chunk[base + 2] * 256 + chunk[base + 3]
                   atype == chunk[base + 4]
                   alen == IF atype = 1 THEN 4
                           ELSE IF atype = 3 THEN 16
                           ELSE 1 + chunk[base + 5]
               IN IF cmd # CmdTcp \/ atype \notin {1, 2, 3} THEN Invalid
                  ELSE IF Len(chunk) < base + 4 + alen THEN Invalid
                  ELSE [uuid |-> UuidFmt(Slice(chunk, 1, 17)), command |-> cmd,
                        address |-> SubSeq(chunk, base + 5, base + 4 + alen),
                        address_type |-> atype, port |-> port]

\* what HeaderCodec.decode makes of a first frame
Classify(chunk) ==
  LET r == WasmDecode(chunk)
  IN IF r = Incomplete THEN "Incomplete" ELSE IF r = Invalid THEN "Invalid" ELSE "Header"

\* parseVlessHeader: throws unless the module is ready; a rejected header
\* comes back as an exception or an empty result
ParseVlessHeader(chunk, ready) ==
  IF ~ready THEN Throw
  ELSE LET r == WasmDecode(chunk)
       IN IF r \in {Incomplete, Invalid} THEN Throw ELSE r

\* the fallback parser; view.getUint8(18) throws a RangeError on a short buffer
JsFallbackParse(chunk) ==
  IF Len(chunk) < FallbackCmdOffset + 1 THEN Throw
  ELSE [uuid |-> UuidFmt(Slice(chunk, 1, 17)), command |-> chunk[FallbackCmdOffset + 1],
        address |-> <<>>, address_type |-> 1, port |-> 443]

\* the try/catch around the native parser followed by `if (!parsed)`
ParseFirstChunk(chunk, ready) ==
  LET parsed == ParseVlessHeader(chunk, ready)
  IN IF parsed = Throw THEN JsFallbackParse(chunk) ELSE parsed

\* ------------------------------------------------------------------ store
\* a users row; traffic_limit 0 stands for SQL NULL (the admin API binds
\* `traffic_limit || null`), expiration NoExpiry for a date/time pair that
\* expiryToISO cannot turn into a timestamp
NoRow == [absent |-> TRUE]
NoExpiry == -1
NullLimit == 0

Row(exp, tl, tu, ipl) ==
  [expiration |-> exp, traffic_limit |-> tl, traffic_used |-> tu, ip_limit |-> ipl]

IpA == "10.1.1.1"
IpB == "10.1.1.2"
NoIpHeader == ""

\* the contents of users and user_ips when the first connection arrives, with
\* the number of connections the run accepts, whether each of them comes from
\* an address of its own, and the frames their clients send
StoreConfigs ==
  { [u1 |-> NoRow, ips |-> {}, conns |-> 1, split |-> FALSE, frames |-> Inputs],
    [u1 |-> Row(1, NullLimit, 0, -1), ips |-> {}, conns |-> 1, split |-> FALSE, frames |-> Inputs],
    [u1 |-> Row(NoExpiry, 27, 27, -1), ips |-> {<<U1, IpA>>}, conns |-> 1, split |-> FALSE, frames |-> Inputs],
    [u1 |-> Row(Far, 54, 0, 1), ips |-> {}, conns |-> 1, split |-> FALSE, frames |-> Inputs],
    [u1 |-> Row(1, 27, 27, 1), ips |-> {<<U1, IpA>>}, conns |-> 1, split |-> FALSE,
     frames |-> {Bytes(HdrU1), Bytes(HdrU2), [kind |-> "blob", chunk |-> Trunc3]}],
    [u1 |-> Row(Far, NullLimit, 0, 1), ips |-> {<<U1, IpA>>}, conns |-> 1, split |-> FALSE, frames |-> Inputs],
    [u1 |-> Row(Far, NullLimit, 0, 2), ips |-> {<<U1, IpA>>, <<U1, IpB>>}, conns |-> 1,
     split |-> FALSE, frames |-> Inputs],
    [u1 |-> Row(Far, 54, 0, 1), ips |-> {}, conns |-> NumSessions - 1,
     split |-> TRUE, frames |-> {Bytes(HdrU1), Bytes(HdrU2)}] }

\* expiryToISO(expiration_date, expiration_time): null or the instant
ExpiryToISO(row) == IF row.expiration = NoExpiry THEN NoExpiry ELSE row.expiration

\* expIso && new Date(expIso) <= new Date()
IsExpired(row, t) == ExpiryToISO(row) # NoExpiry /\ ExpiryToISO(row) <= t

\* the quota comparison written with > in place of >=
TrafficExceededStrict(row) ==
  row.traffic_limit # NullLimit /\ row.traffic_limit > 0 /\ row.traffic_used > row.traffic_limit

\* traffic_limit && traffic_limit > 0 && (traffic_used || 0) >= traffic_limit
TrafficExceeded(row) ==
  row.traffic_limit # NullLimit /\ row.traffic_limit > 0 /\ row.traffic_used >= row.traffic_limit

\* ip_limit && ip_limit > -1
IpLimitSet(row) == row.ip_limit # 0 /\ row.ip_limit > -1

\* ipCount >= userRow.ip_limit
IpLimitReached(ipCount, row) == ipCount >= row.ip_limit

\* SELECT COUNT(DISTINCT ip) FROM user_ips WHERE uuid = ?
CountDistinctIps(ips, uuid) == Cardinality({ r \in ips : r[1] = uuid })

\* req.headers.get('CF-Connecting-IP') || 'unknown'
UpsertIp(ip) == IF ip = NoIpHeader THEN "unknown" ELSE ip

\* ---------------------------------------------------------------- session
VARIABLES users, user_ips, now, wasmBinding, wasmFuncsLoaded, wasmReady,
          sess, handlers, pendingInc, pendingUps, scenario, call,
          app, requests, db, tokens

\* the module-level state of the worker, its HTTP requests in flight, the
\* tables of the store the HTTP routes use, and the session tokens issued
httpVars == <<app, requests, db, tokens>>

vars == <<users, user_ips, now, wasmBinding, wasmFuncsLoaded, wasmReady,
          sess, handlers, pendingInc, pendingUps, scenario, call, httpVars>>

\* the variables of the /ws sessions and their store
sessVars == <<users, user_ips, now, wasmBinding, wasmFuncsLoaded, wasmReady,
              sess, handlers, pendingInc, pendingUps, scenario>>

\* ---- the worker behind entry.ts
NumRequests == 3
Requests == 1..NumRequests

\* appInstance: 0 for null, else the number of the Hono instance; initPromise:
\* 0 for null, else the request whose call of initializeApp made the promise;
\* created and registrations count the `new Hono` and registerRoutes calls
NoApp ==
  [cachedWorker |-> FALSE, hono |-> FALSE, appInstance |-> 0, initPromise |-> 0,
   tablesInitialized |-> FALSE, created |-> 0, registrations |-> 0]

\* a request: where its handler stands, the promise it awaits in
\* default.fetch, the state of the async body its call of initializeApp
\* started, and the instance it was dispatched to
NoRequest ==
  [pc |-> "none", route |-> "", cookie |-> 0, awaits |-> 0, body |-> "none",
   sawInit |-> "", dispatchedTo |-> 0, status |-> 0]

\* batch: the CREATE TABLE IF NOT EXISTS batch; admin_session: the
\* token_hash of the row with id 'default', if there is one
NoDb == [batch |-> "none", admin_session |-> <<>>]

\* issued: the tokens crypto.randomUUID() has produced; valid: the token of
\* the most recent login, 0 when there is none or a logout came after it
NoTokens == [issued |-> 0, valid |-> 0]

\* no HTTP request is ever handled
NoHttp ==
  /\ app = NoApp
  /\ requests = [r \in Requests |-> NoRequest]
  /\ db = NoDb
  /\ tokens = NoTokens

\* `call` holds one evaluation of a function of the program outside any
\* session: its arguments and, once it has run, its result
NoCall == [fn |-> "none"]
NotRun == [pending |-> TRUE]

RECURSIVE SumSeq(_)
SumSeq(q) == IF q = <<>> THEN 0 ELSE Head(q) + SumSeq(Tail(q))

RECURSIVE SumDeltas(_)
SumDeltas(q) == IF q = <<>> THEN 0 ELSE Head(q).delta + SumDeltas(Tail(q))

\* the outbound socket of a session: the handler opens none (the relay is a
\* TODO in the source, the reply is the literal 'ACK')
NoUpstream == [address |-> <<>>, port |-> 0]

IdleSession ==
  [conn |-> "idle", upstream |-> NoUpstream, ip |-> NoIpHeader, sessionUsage |-> 0, uuidStr |-> "",
   acceptedAt |-> 0, intervalOn |-> FALSE, closeReason |-> "", acks |-> 0,
   recorded |-> 0, dispatched |-> <<>>, sinceFlush |-> <<>>, idleFlush |-> FALSE,
   flushFailed |-> FALSE]

NewHandler(input) ==
  [pc |-> "start", chunk |-> input.chunk, uuid |-> "", row |-> NoRow,
   countUuid |-> "", ipCount |-> -1, ipKnown |-> FALSE,
   verdict |-> "none", effective |-> FALSE, parsedAs |-> "none", firstLen |-> 0,
   upserted |-> FALSE, target |-> NoUpstream, gate |-> "none", acked |-> FALSE,
   lookedAt |-> 0, wrote |-> ""]

UserRow(u) == IF u \in DOMAIN users THEN users[u] ELSE NoRow

Init ==
  /\ \E cfg \in StoreConfigs :
       /\ users = (U1 :> cfg.u1) @@ (U2 :> Row(Far, NullLimit, 0, -1))
       /\ user_ips = cfg.ips
       /\ scenario = [conns |-> cfg.conns, split |-> cfg.split, frames |-> cfg.frames,
                       msgs |-> MaxMsgs, u1 |-> cfg.u1]
  /\ now = 0
  /\ wasmBinding \in {"none", "parser"}
  /\ wasmFuncsLoaded = FALSE
  /\ wasmReady = FALSE
  /\ sess = [s \in Sessions |-> IdleSession]
  /\ handlers = [s \in Sessions |-> <<>>]
  /\ pendingInc = {}
  /\ pendingUps = {}
  /\ call = NoCall
  /\ NoHttp

\* server.close(code, reason): takes effect on an open socket only
ServerClose(sr, reason) ==
  IF sr.conn = "open" THEN [sr EXCEPT !.conn = "closing", !.closeReason = reason] ELSE sr

\* if (server.readyState === 1) server.send('ACK')
SendAck(sr) == IF sr.conn = "open" THEN [sr EXCEPT !.acks = @ + 1] ELSE sr

\* the ways a first frame fails: the four authorization failures, and the
\* parse and store errors that end in the outer catch
AuthFailures == {"Unknown", "Expired", "Traffic", "IpLimit"}
Failures == AuthFailures \cup {"ParseError", "StoreError"}

\* the reasons with the unknown account reported like a parse error
CloseReasonMerged(v) ==
  CASE v = "Unknown" -> "Parse error"
    [] v = "Expired" -> "Expired"
    [] v = "Traffic" -> "Traffic limit exceeded"
    [] v = "IpLimit" -> "IP limit exceeded"
    [] OTHER -> "Parse error"

\* the reason argument of each server.close(code, reason) of the handler
CloseReason(v) ==
  CASE v = "Unknown" -> "Authentication failed"
    [] v = "Expired" -> "Expired"
    [] v = "Traffic" -> "Traffic limit exceeded"
    [] v = "IpLimit" -> "IP limit exceeded"
    [] OTHER -> "Parse error"

\* a handler that ends by closing the connection
Reject(sr, h, reason, v) ==
  [s |-> ServerClose(sr, reason),
   h |-> [h EXCEPT !.pc = "done", !.chunk = <<>>, !.verdict = v, !.effective = (sr.conn = "open")],
   ups |-> {}]

\* the early return without its sessionUsage <= 0 half
FlushGuardAnyUsage(uuid, usage) == uuid # ""

\* if (!uuidStr || sessionUsage <= 0) return
FlushGuard(uuid, usage) == uuid # "" /\ usage > 0

\* flushUsage without the reset of the accumulator
AfterFlushKept(usage) == usage

\* sessionUsage = 0 after the increment has been handed to waitUntil
AfterFlush(usage) == 0

\* flushUsage: bind(Math.round(sessionUsage), uuidStr) is evaluated before the reset
FlushUsage(s, sr) ==
  LET go == FlushGuard(sr.uuidStr, sr.sessionUsage)
      inc == [s |-> s, n |-> Len(sr.dispatched) + 1, uuid |-> sr.uuidStr, delta |-> sr.sessionUsage]
      entry == [uuid |-> sr.uuidStr, delta |-> sr.sessionUsage, records |-> sr.sinceFlush,
                status |-> "pending"]
  IN [s |-> IF go THEN [sr EXCEPT !.sessionUsage = AfterFlush(@), !.dispatched = Append(@, entry),
                                  !.sinceFlush = <<>>]
            ELSE [sr EXCEPT !.idleFlush = (sr.dispatched # <<>> /\ sr.sinceFlush = <<>>)],
      incs |-> IF go THEN {inc} ELSE {}]

\* from the parser to the dispatch of the account lookup (lines 429-451)
AfterImport(sr, h) ==
  LET parsed == ParseFirstChunk(h.chunk, wasmReady)
      h1 == [h EXCEPT !.parsedAs = Classify(h.chunk), !.firstLen = Len(h.chunk)]
  IN IF parsed = Throw THEN Reject(sr, h1, CloseReason("ParseError"), "ParseError")
     ELSE [s |-> [sr EXCEPT !.uuidStr = parsed.uuid],
           h |-> [h1 EXCEPT !.pc = "lookup", !.uuid = parsed.uuid, !.chunk = <<>>,
                            !.target = [address |-> parsed.address, port |-> parsed.port]],
           ups |-> {}]

\* from `sessionUsage += chunk.byteLength` to the first pending await
AfterChunk(sr, h) ==
  LET n == Len(h.chunk)
      sr1 == [sr EXCEPT !.sessionUsage = @ + n, !.recorded = @ + n,
                        !.sinceFlush = Append(@, n), !.idleFlush = FALSE]
  IN IF sr.uuidStr # ""
       THEN [s |-> SendAck(sr1),
             h |-> [h EXCEPT !.pc = "done", !.chunk = <<>>, !.acked = (sr.conn = "open")],
             ups |-> {}]
     ELSE IF wasmFuncsLoaded THEN AfterImport(sr1, h)
     ELSE [s |-> sr1, h |-> [h EXCEPT !.pc = "import"], ups |-> {}]

\* the deferred INSERT OR REPLACE INTO user_ips, then the ACK reply
Admit(sr, h, v) ==
  [s |-> SendAck(sr),
   h |-> [h EXCEPT !.pc = "done", !.verdict = v, !.upserted = TRUE, !.acked = (sr.conn = "open"),
                   !.wrote = sr.uuidStr],
   ups |-> {<<sr.uuidStr, UpsertIp(sr.ip)>>}]

\* the checks with the traffic quota tested before the expiry
AfterLookupTrafficFirst(sr, h, row, t) ==
  LET h1 == [h EXCEPT !.row = row, !.lookedAt = t]
  IN IF row = NoRow THEN Reject(sr, h1, CloseReason("Unknown"), "Unknown")
     ELSE IF TrafficExceeded(row) THEN Reject(sr, h1, CloseReason("Traffic"), "Traffic")
     ELSE IF IsExpired(row, t) THEN Reject(sr, h1, CloseReason("Expired"), "Expired")
     ELSE IF IpLimitSet(row)
       THEN [s |-> sr, h |-> [h1 EXCEPT !.pc = "count", !.countUuid = sr.uuidStr], ups |-> {}]
     ELSE Admit(sr, h1, "Ok")

\* the checks that follow the account lookup (lines 452-478)
AfterLookup(sr, h, row, t) ==
  LET h1 == [h EXCEPT !.row = row, !.lookedAt = t]
  IN IF row = NoRow THEN Reject(sr, h1, CloseReason("Unknown"), "Unknown")
     ELSE IF IsExpired(row, t) THEN Reject(sr, h1, CloseReason("Expired"), "Expired")
     ELSE IF TrafficExceeded(row) THEN Reject(sr, h1, CloseReason("Traffic"), "Traffic")
     ELSE IF IpLimitSet(row)
       THEN [s |-> sr, h |-> [h1 EXCEPT !.pc = "count", !.countUuid = sr.uuidStr], ups |-> {}]
     ELSE Admit(sr, h1, "Ok")

\* the continuation of the COUNT(DISTINCT ip) query (lines 473-485)
AfterCount(sr, h, ipCount, known) ==
  LET h1 == [h EXCEPT !.ipCount = ipCount, !.ipKnown = known]
  IN IF IpLimitReached(ipCount, h.row) THEN Reject(sr, h1, CloseReason("IpLimit"), "IpLimit")
     ELSE Admit(sr, h1, "Ok")

\* what has become of the increments an open, authenticated session has
\* handed to waitUntil, as a handler finds it when it takes up its chunk
FlushState(s) ==
  IF \E p \in pendingInc : p.s = s THEN "pending"
  ELSE IF sess[s].flushFailed THEN "failed" ELSE "none"

Gated(s, h) ==
  [h EXCEPT !.gate = IF sess[s].conn = "open" /\ sess[s].uuidStr # "" THEN FlushState(s)
                     ELSE "none"]

\* the catch of the deferred update with a close of the connection added
OnFlushErrorCloses(sr) == ServerClose([sr EXCEPT !.flushFailed = TRUE], "Internal error")

\* catch (e) { console.error('flush usage error', e) }
OnFlushError(sr) == [sr EXCEPT !.flushFailed = TRUE]

\* the continuation with uuidStr held in one variable for all connections
ApplyShared(s, i, r) ==
  /\ sess' = [t \in Sessions |-> IF t = s THEN r.s
                                  ELSE [sess[t] EXCEPT !.uuidStr = r.s.uuidStr]]
  /\ handlers' = [handlers EXCEPT ![s][i] = r.h]
  /\ pendingUps' = pendingUps \cup r.ups

\* a continuation writes the variables of its own connection's closure
Apply(s, i, r) ==
  /\ sess' = [sess EXCEPT ![s] = r.s]
  /\ handlers' = [handlers EXCEPT ![s][i] = r.h]
  /\ pendingUps' = pendingUps \cup r.ups

\* the CF-Connecting-IP header of the s-th connection when no two share one
OwnAddress(s) == IF s = 1 THEN IpA ELSE IF s = 2 THEN NoIpHeader ELSE IpB

\* app.all('/ws'): wasm init, accept, setInterval, listeners
Connect(s, ip) ==
  /\ sess[s].conn = "idle"
  /\ s <= scenario.conns
  /\ \A r \in Sessions : r < s => sess[r].conn # "idle"
  /\ scenario.split => ip = OwnAddress(s)
  /\ sess' = [sess EXCEPT ![s].conn = "open", ![s].ip = ip, ![s].intervalOn = TRUE,
                           ![s].acceptedAt = now]
  /\ wasmFuncsLoaded' = (wasmFuncsLoaded \/ wasmBinding # "none")
  /\ wasmReady' = (wasmReady \/ wasmBinding = "parser")
  /\ UNCHANGED <<users, user_ips, now, wasmBinding, handlers, pendingInc, pendingUps, scenario, call, httpVars>>

RECURSIVE CountHandlers(_)
CountHandlers(n) == IF n = 0 THEN 0 ELSE Len(handlers[n]) + CountHandlers(n - 1)

\* message events delivered so far
MsgTotal == CountHandlers(NumSessions)

\* server.addEventListener('message'): the handler up to its first pending await
MessageEvent(s, input) ==
  /\ sess[s].conn \in {"open", "closing"}
  /\ MsgTotal < scenario.msgs
  /\ input \in scenario.frames
  /\ IF input.kind = "other"
       THEN UNCHANGED <<sess, handlers, pendingUps>>
     ELSE LET i == Len(handlers[s]) + 1
              h == NewHandler(input)
          IN IF input.kind = "blob"
               THEN /\ handlers' = [handlers EXCEPT ![s] = Append(@, [h EXCEPT !.pc = "blob"])]
                    /\ UNCHANGED <<sess, pendingUps>>
             ELSE LET r == AfterChunk(sess[s], Gated(s, h))
                  IN /\ sess' = [sess EXCEPT ![s] = r.s]
                     /\ handlers' = [handlers EXCEPT ![s] = Append(@, r.h)]
                     /\ pendingUps' = pendingUps \cup r.ups
  /\ UNCHANGED <<users, user_ips, now, wasmBinding, wasmFuncsLoaded, wasmReady, pendingInc, scenario, call, httpVars>>

\* await data.arrayBuffer() resolves
BlobRead(s, i) ==
  /\ i \in DOMAIN handlers[s]
  /\ handlers[s][i].pc = "blob"
  /\ Apply(s, i, AfterChunk(sess[s], Gated(s, handlers[s][i])))
  /\ UNCHANGED <<users, user_ips, now, wasmBinding, wasmFuncsLoaded, wasmReady, pendingInc, scenario, call, httpVars>>

\* await getWasmFuncs() resolves after the dynamic import
ImportDone(s, i) ==
  /\ i \in DOMAIN handlers[s]
  /\ handlers[s][i].pc = "import"
  /\ wasmFuncsLoaded' = TRUE
  /\ Apply(s, i, AfterImport(sess[s], handlers[s][i]))
  /\ UNCHANGED <<users, user_ips, now, wasmBinding, wasmReady, pendingInc, scenario, call, httpVars>>

\* SELECT ... FROM users WHERE uuid = ? resolves
LookupOk(s, i) ==
  /\ i \in DOMAIN handlers[s]
  /\ handlers[s][i].pc = "lookup"
  /\ Apply(s, i, AfterLookup(sess[s], handlers[s][i], UserRow(handlers[s][i].uuid), now))
  /\ UNCHANGED <<users, user_ips, now, wasmBinding, wasmFuncsLoaded, wasmReady, pendingInc, scenario, call, httpVars>>

\* the lookup rejects: catch (e) { server.close(1011, 'Parse error') }
LookupFail(s, i) ==
  /\ i \in DOMAIN handlers[s]
  /\ handlers[s][i].pc = "lookup"
  /\ Apply(s, i, Reject(sess[s], handlers[s][i], CloseReason("StoreError"), "StoreError"))
  /\ UNCHANGED <<users, user_ips, now, wasmBinding, wasmFuncsLoaded, wasmReady, pendingInc, scenario, call, httpVars>>

\* SELECT COUNT(DISTINCT ip) resolves
CountOk(s, i) ==
  /\ i \in DOMAIN handlers[s]
  /\ handlers[s][i].pc = "count"
  /\ LET h == handlers[s][i]
     IN Apply(s, i, AfterCount(sess[s], h, CountDistinctIps(user_ips, h.countUuid),
                               <<h.countUuid, UpsertIp(sess[s].ip)>> \in user_ips))
  /\ UNCHANGED <<users, user_ips, now, wasmBinding, wasmFuncsLoaded, wasmReady, pendingInc, scenario, call, httpVars>>

\* the count query rejects: catch (e) { console.warn('ip_limit check err') }, then the ACK
CountFail(s, i) ==
  /\ i \in DOMAIN handlers[s]
  /\ handlers[s][i].pc = "count"
  /\ Apply(s, i, [s |-> SendAck(sess[s]),
                  h |-> [handlers[s][i] EXCEPT !.pc = "done", !.verdict = "IpSkipped",
                                               !.acked = (sess[s].conn = "open")],
                  ups |-> {}])
  /\ UNCHANGED <<users, user_ips, now, wasmBinding, wasmFuncsLoaded, wasmReady, pendingInc, scenario, call, httpVars>>

\* setInterval(() => { flushUsage(); }, 10000)
Tick(s) ==
  /\ sess[s].intervalOn
  /\ LET r == FlushUsage(s, sess[s])
     IN /\ sess' = [sess EXCEPT ![s] = r.s]
        /\ pendingInc' = pendingInc \cup r.incs
  /\ UNCHANGED <<users, user_ips, now, wasmBinding, wasmFuncsLoaded, wasmReady, handlers, pendingUps, scenario, call, httpVars>>

\* server.addEventListener('close'): clearInterval, then the final flush
CloseEvent(s) ==
  /\ sess[s].conn \in {"open", "closing"}
  /\ LET sr == [sess[s] EXCEPT !.conn = "closed", !.intervalOn = FALSE,
                               !.closeReason = IF sess[s].conn = "open" THEN "peer" ELSE @]
         r == FlushUsage(s, sr)
     IN /\ sess' = [sess EXCEPT ![s] = r.s]
        /\ pendingInc' = pendingInc \cup r.incs
  /\ UNCHANGED <<users, user_ips, now, wasmBinding, wasmFuncsLoaded, wasmReady, handlers, pendingUps, scenario, call, httpVars>>

\* the update written as SET traffic_used = ?
SetTrafficUsedOverwrite(used, delta) == delta

\* SET traffic_used = traffic_used + ?
SetTrafficUsed(used, delta) == used + delta

\* UPDATE users SET traffic_used = traffic_used + ? WHERE uuid = ? runs
IncOk(p) ==
  /\ p \in pendingInc
  /\ pendingInc' = pendingInc \ {p}
  /\ users' = IF UserRow(p.uuid) = NoRow THEN users
              ELSE [users EXCEPT ![p.uuid].traffic_used = SetTrafficUsed(@, p.delta)]
  /\ sess' = [sess EXCEPT ![p.s].dispatched[p.n].status = "applied"]
  /\ UNCHANGED <<user_ips, now, wasmBinding, wasmFuncsLoaded, wasmReady, handlers, pendingUps, scenario, call, httpVars>>

\* the update rejects: catch (e) { console.error('flush usage error') }
IncFail(p) ==
  /\ p \in pendingInc
  /\ pendingInc' = pendingInc \ {p}
  /\ sess' = [sess EXCEPT ![p.s] = OnFlushError([@ EXCEPT !.dispatched[p.n].status = "failed"])]
  /\ UNCHANGED <<users, user_ips, now, wasmBinding, wasmFuncsLoaded, wasmReady, handlers, pendingUps, scenario, call, httpVars>>

\* INSERT OR REPLACE INTO user_ips runs
UpsOk(p) ==
  /\ p \in pendingUps
  /\ pendingUps' = pendingUps \ {p}
  /\ user_ips' = user_ips \cup {p}
  /\ UNCHANGED <<users, now, wasmBinding, wasmFuncsLoaded, wasmReady, sess, handlers, pendingInc, scenario, call, httpVars>>

\* the upsert rejects: catch (e) { console.warn('user_ip upsert failed') }
UpsFail(p) ==
  /\ p \in pendingUps
  /\ pendingUps' = pendingUps \ {p}
  /\ UNCHANGED <<users, user_ips, now, wasmBinding, wasmFuncsLoaded, wasmReady, sess, handlers, pendingInc, scenario, call, httpVars>>

\* new Date() moves on, towards the next expiry instant on record
AdvanceTime ==
  /\ now < MaxTime
  /\ \E u \in DOMAIN users : users[u] # NoRow /\ users[u].expiration > now
                              /\ users[u].expiration <= MaxTime
  /\ now' = now + 1
  /\ UNCHANGED <<users, user_ips, wasmBinding, wasmFuncsLoaded, wasmReady, sess, handlers, pendingInc, pendingUps, scenario, call, httpVars>>

SourceIps == {IpA, NoIpHeader}
HandlerIds == 1..(MaxMsgs + 1)

Next ==
  \/ \E s \in Sessions, ip \in SourceIps : Connect(s, ip)
  \/ \E s \in Sessions, input \in Inputs : MessageEvent(s, input)
  \/ \E s \in Sessions, i \in HandlerIds : BlobRead(s, i)
  \/ \E s \in Sessions, i \in HandlerIds : ImportDone(s, i)
  \/ \E s \in Sessions, i \in HandlerIds : LookupOk(s, i)
  \/ \E s \in Sessions, i \in HandlerIds : LookupFail(s, i)
  \/ \E s \in Sessions, i \in HandlerIds : CountOk(s, i)
  \/ \E s \in Sessions, i \in HandlerIds : CountFail(s, i)
  \/ \E s \in Sessions : Tick(s)
  \/ \E s \in Sessions : CloseEvent(s)
  \/ \E p \in pendingInc : IncOk(p)
  \/ \E p \in pendingInc : IncFail(p)
  \/ \E p \in pendingUps : UpsOk(p)
  \/ \E p \in pendingUps : UpsFail(p)
  \/ AdvanceTime

Spec == Init /\ [][Next]_vars

\* ------------------------------------ concurrent sessions of one account
\* one account with IP limit 1 and no address on record; every connection
\* comes from an address of its own and sends the account's header
InitRace ==
  /\ users = (U1 :> Row(Far, NullLimit, 0, 1)) @@ (U2 :> Row(Far, NullLimit, 0, -1))
  /\ user_ips = {}
  /\ scenario = [conns |-> NumSessions, split |-> TRUE, frames |-> {Bytes(HdrU1)},
                 msgs |-> NumSessions, u1 |-> Row(Far, NullLimit, 0, 1)]
  /\ now = 0
  /\ wasmBinding = "none"
  /\ wasmFuncsLoaded = FALSE
  /\ wasmReady = FALSE
  /\ sess = [s \in Sessions |-> IdleSession]
  /\ handlers = [s \in Sessions |-> <<>>]
  /\ pendingInc = {}
  /\ pendingUps = {}
  /\ call = NoCall
  /\ NoHttp

\* the steps of the authorization and of the deferred upsert
NextRace ==
  \/ \E s \in Sessions : Connect(s, OwnAddress(s))
  \/ \E s \in Sessions : MessageEvent(s, Bytes(HdrU1))
  \/ \E s \in Sessions, i \in HandlerIds : ImportDone(s, i)
  \/ \E s \in Sessions, i \in HandlerIds : LookupOk(s, i)
  \/ \E s \in Sessions, i \in HandlerIds : CountOk(s, i)
  \/ \E p \in pendingUps : UpsOk(p)

SpecRace == InitRace /\ [][NextRace]_vars

\* ------------------------------------------- a connection and its timers
\* one connection to a worker whose store holds one account; the client may
\* send the account's header, close, or do neither
InitWait ==
  /\ users = (U1 :> Row(Far, NullLimit, 0, 1)) @@ (U2 :> Row(Far, NullLimit, 0, -1))
  /\ user_ips = {}
  /\ scenario = [conns |-> 1, split |-> FALSE, frames |-> {Bytes(HdrU1)},
                 msgs |-> MaxMsgs, u1 |-> Row(Far, NullLimit, 0, 1)]
  /\ now = 0
  /\ wasmBinding = "none"
  /\ wasmFuncsLoaded = FALSE
  /\ wasmReady = FALSE
  /\ sess = [s \in Sessions |-> IdleSession]
  /\ handlers = [s \in Sessions |-> <<>>]
  /\ pendingInc = {}
  /\ pendingUps = {}
  /\ call = NoCall
  /\ NoHttp

\* what the client does
ClientStep ==
  \/ \E s \in Sessions, ip \in SourceIps : Connect(s, ip)
  \/ \E s \in Sessions : MessageEvent(s, Bytes(HdrU1))
  \/ \E s \in Sessions : CloseEvent(s)

\* the interval timer of a connection fires
TimerStep == \E s \in Sessions : Tick(s)

\* a pending import or store query of a handler resolves
HandlerStep ==
  \/ \E s \in Sessions, i \in HandlerIds : ImportDone(s, i)
  \/ \E s \in Sessions, i \in HandlerIds : LookupOk(s, i)
  \/ \E s \in Sessions, i \in HandlerIds : CountOk(s, i)

\* a deferred store write runs
StoreStep ==
  \/ \E p \in pendingInc : IncOk(p)
  \/ \E p \in pendingUps : UpsOk(p)

NextWait == ClientStep \/ TimerStep \/ HandlerStep \/ StoreStep

\* timers fire and pending promises resolve; the client is under no obligation
SpecWait ==
  /\ InitWait
  /\ [][NextWait]_vars
  /\ WF_vars(TimerStep)
  /\ WF_vars(HandlerStep)
  /\ WF_vars(StoreStep)

\* ------------------------------------------ an account under its operator
\* traffic_limit || null: a limit of 0 is stored as no limit
TrafficLimitParam(v) == IF v = 0 THEN NullLimit ELSE v

\* ip_limit || -1: a limit of 0 is stored as -1
IpLimitParam(v) == IF v = 0 THEN -1 ELSE v

\* the stored expiry dates an operator's request can leave: the instant the
\* date and time strings denote, NoExpiry when they denote none
Expiries == {NoExpiry, 1, Far}

\* the IP limits on record and the ones an operator asks for
IpLimits == {0, 1}

\* the account of U1 as the store holds it when the worker starts; the
\* ip_limit column is an INTEGER and admits 0
InitAccount ==
  /\ \E exp \in Expiries, ipl \in IpLimits \cup {-1} :
       /\ users = (U1 :> Row(exp, NullLimit, 0, ipl)) @@ (U2 :> Row(Far, NullLimit, 0, -1))
       /\ scenario = [conns |-> 1, split |-> FALSE, frames |-> {Bytes(HdrU1)},
                      msgs |-> 1, u1 |-> Row(exp, NullLimit, 0, ipl)]
  /\ user_ips = {}
  /\ now = 0
  /\ wasmBinding = "none"
  /\ wasmFuncsLoaded = FALSE
  /\ wasmReady = FALSE
  /\ sess = [s \in Sessions |-> IdleSession]
  /\ handlers = [s \in Sessions |-> <<>>]
  /\ pendingInc = {}
  /\ pendingUps = {}
  /\ call = NoCall
  /\ NoHttp

\* PUT /admin/api/users/:uuid of an authenticated operator: UPDATE users SET
\* expiration_date, expiration_time, traffic_limit, ip_limit
PutUser(u, exp, tl, ipl) ==
  /\ u \in DOMAIN users
  /\ users[u] # NoRow
  /\ users' = [users EXCEPT ![u] = Row(exp, TrafficLimitParam(tl), @.traffic_used, IpLimitParam(ipl))]
  /\ UNCHANGED <<user_ips, now, wasmBinding, wasmFuncsLoaded, wasmReady, sess, handlers, pendingInc, pendingUps, scenario, call, httpVars>>

NextAccount ==
  \/ \E exp \in Expiries, ipl \in IpLimits : PutUser(U1, exp, 0, ipl)
  \/ \E s \in Sessions : Connect(s, IpA)
  \/ \E s \in Sessions : MessageEvent(s, Bytes(HdrU1))
  \/ \E s \in Sessions, i \in HandlerIds : ImportDone(s, i)
  \/ \E s \in Sessions, i \in HandlerIds : LookupOk(s, i)
  \/ \E s \in Sessions, i \in HandlerIds : CountOk(s, i)
  \/ \E p \in pendingUps : UpsOk(p)
  \/ AdvanceTime

SpecAccount == InitAccount /\ [][NextAccount]_vars

\* a worker that has accepted no connection
NoSessions ==
  /\ users = (U1 :> NoRow) @@ (U2 :> NoRow)
  /\ user_ips = {}
  /\ scenario = [conns |-> 0, split |-> FALSE, frames |-> {}, msgs |-> 0, u1 |-> NoRow]
  /\ now = 0
  /\ wasmBinding = "none"
  /\ wasmFuncsLoaded = FALSE
  /\ wasmReady = FALSE
  /\ sess = [s \in Sessions |-> IdleSession]
  /\ handlers = [s \in Sessions |-> <<>>]
  /\ pendingInc = {}
  /\ pendingUps = {}

\* ------------------------------------------------------ the HTTP worker
\* SHA-256 of a token, as hex
Sha256Hex(t) == <<"sha256", t>>

Routes == {"GET /admin", "GET /admin/api/stats"}

\* the cookie of a request: none, or the auth_token of an earlier login
Cookies == {0, 1}

\* a store that an earlier worker instance has used: the session row of
\* token 1 is on record
InitHttp ==
  /\ NoSessions
  /\ call = NoCall
  /\ app = NoApp
  /\ requests = [r \in Requests |-> NoRequest]
  /\ db = [batch |-> "none", admin_session |-> <<Sha256Hex(1)>>]
  /\ tokens = [issued |-> 1, valid |-> 1]

\* initializeApp without the initPromise memo
InitializeAppNoMemo(a, r) ==
  IF a.appInstance # 0
    THEN [app |-> a, awaits |-> 0, body |-> "none"]
    ELSE [app |-> [a EXCEPT !.initPromise = r], awaits |-> r, body |-> "getHono"]

\* initializeApp up to the first await of the body it starts
InitializeApp(a, r) ==
  IF a.initPromise # 0
    THEN [app |-> a, awaits |-> a.initPromise, body |-> "none"]
    ELSE IF a.appInstance # 0
      THEN [app |-> a, awaits |-> 0, body |-> "none"]
      ELSE [app |-> [a EXCEPT !.initPromise = r], awaits |-> r,
            body |-> IF a.appInstance = 0 THEN "getHono" ELSE "resolved"]

\* the initPromise as a caller of initializeApp finds it
PromiseState(a) ==
  IF a.initPromise = 0 THEN "null"
  ELSE IF requests[a.initPromise].body = "resolved" THEN "resolved" ELSE "pending"

\* default.fetch of index.tsx up to `await initializeApp()`
WorkerFetch(r, a, route, cookie) ==
  LET c == InitializeApp(a, r)
  IN /\ app' = c.app
     /\ requests' = [requests EXCEPT ![r] =
          [@ EXCEPT !.pc = "awaitInit", !.route = route, !.cookie = cookie,
                    !.awaits = c.awaits, !.body = c.body, !.sawInit = PromiseState(a)]]

\* entry.ts fetch: the worker module is imported on the first request
Fetch(r, route, cookie) ==
  /\ requests[r].pc = "none"
  /\ IF app.cachedWorker
       THEN WorkerFetch(r, app, route, cookie)
       ELSE /\ requests' = [requests EXCEPT ![r] =
                 [@ EXCEPT !.pc = "importIndex", !.route = route, !.cookie = cookie]]
            /\ app' = app
  /\ UNCHANGED <<sessVars, call, db, tokens>>

\* import('./index') resolves: cachedWorker = ....default, then its fetch
IndexImported(r) ==
  /\ requests[r].pc = "importIndex"
  /\ WorkerFetch(r, [app EXCEPT !.cachedWorker = TRUE], requests[r].route, requests[r].cookie)
  /\ UNCHANGED <<sessVars, call, db, tokens>>

\* getHono() resolves in the body of initializeApp: new Hono(), then
\* registerRoutes, which runs to its end without an await
HonoLoaded(r) ==
  /\ requests[r].body = "getHono"
  /\ app' = [app EXCEPT !.hono = TRUE, !.appInstance = app.created + 1,
                        !.created = @ + 1, !.registrations = @ + 1]
  /\ requests' = [requests EXCEPT ![r].body = "awaitRegister"]
  /\ UNCHANGED <<sessVars, call, db, tokens>>

\* the body of initializeApp returns: its promise resolves
BodyDone(r) ==
  /\ requests[r].body = "awaitRegister"
  /\ requests' = [requests EXCEPT ![r].body = "resolved"]
  /\ UNCHANGED <<sessVars, call, app, db, tokens>>

\* `await initializeApp()` returns: appInstance.fetch(request, env, ctx)
Dispatch(r) ==
  /\ requests[r].pc = "awaitInit"
  /\ requests[r].awaits # 0 => requests[requests[r].awaits].body = "resolved"
  /\ requests' = [requests EXCEPT ![r] =
       [@ EXCEPT !.dispatchedTo = app.appInstance,
                 !.pc = IF requests[r].route = "GET /admin" THEN "ensure" ELSE "auth"]]
  /\ UNCHANGED <<sessVars, call, app, db, tokens>>

\* isAdminRequest, given the cookie's token and the session row read
IsAdminRequest(token, row) ==
  IF token = 0 THEN FALSE
  ELSE IF row = <<>> THEN FALSE
  ELSE Sha256Hex(token) = row[1]

\* GET /admin/api/stats: if (!(await isAdminRequest(c))) return 403
AuthCheck(r) ==
  /\ requests[r].pc = "auth"
  /\ requests' = [requests EXCEPT ![r] =
       IF IsAdminRequest(@.cookie, db.admin_session)
         THEN [@ EXCEPT !.pc = "ensure"]
         ELSE [@ EXCEPT !.pc = "done", !.status = 403]]
  /\ UNCHANGED <<sessVars, call, app, db, tokens>>

\* ensureTablesInitialized up to its await
EnsureTablesInitialized(a, d) ==
  IF a.tablesInitialized
    THEN [app |-> a, db |-> d, pc |-> "ensured"]
    ELSE [app |-> [a EXCEPT !.tablesInitialized = TRUE],
          db |-> [d EXCEPT !.batch = "running"], pc |-> "awaitBatch"]

\* a route handler calls ensureTablesInitialized(env)
EnsureTables(r) ==
  /\ requests[r].pc = "ensure"
  /\ LET e == EnsureTablesInitialized(app, db)
     IN /\ app' = e.app
        /\ db' = e.db
        /\ requests' = [requests EXCEPT ![r].pc = e.pc]
  /\ UNCHANGED <<sessVars, call, tokens>>

\* env.DB.batch(stmts) settles; a rejection is caught and logged
BatchSettles(outcome) ==
  /\ db.batch = "running"
  /\ db' = [db EXCEPT !.batch = outcome]
  /\ requests' = [r \in Requests |->
       IF requests[r].pc = "awaitBatch" THEN [requests[r] EXCEPT !.pc = "ensured"]
       ELSE requests[r]]
  /\ UNCHANGED <<sessVars, call, app, tokens>>

\* the store query that follows ensureTablesInitialized: the session lookup
\* of GET /admin, the user counts of GET /admin/api/stats
StoreQuery(r) ==
  /\ requests[r].pc = "ensured"
  /\ requests' = [requests EXCEPT ![r] = [@ EXCEPT !.pc = "done", !.status = 200]]
  /\ UNCHANGED <<sessVars, call, app, db, tokens>>

NextHttp ==
  \/ \E r \in Requests, route \in Routes, cookie \in Cookies : Fetch(r, route, cookie)
  \/ \E r \in Requests : IndexImported(r)
  \/ \E r \in Requests : HonoLoaded(r)
  \/ \E r \in Requests : BodyDone(r)
  \/ \E r \in Requests : Dispatch(r)
  \/ \E r \in Requests : AuthCheck(r)
  \/ \E r \in Requests : EnsureTables(r)
  \/ \E outcome \in {"done", "failed"} : BatchSettles(outcome)
  \/ \E r \in Requests : StoreQuery(r)

SpecHttp == InitHttp /\ [][NextHttp]_vars

\* ------------------------------------------------------ the admin session
MaxTokens == 2

ApiRoutes == {"GET /admin/api/users", "DELETE /admin/api/users/:uuid"}

\* a worker with ADMIN_KEY configured, two accounts on record and no admin
\* session
InitAdmin ==
  /\ users = (U1 :> Row(Far, NullLimit, 0, -1)) @@ (U2 :> Row(Far, NullLimit, 0, -1))
  /\ user_ips = {}
  /\ scenario = [conns |-> 0, split |-> FALSE, frames |-> {}, msgs |-> 0,
                 u1 |-> Row(Far, NullLimit, 0, -1)]
  /\ now = 0
  /\ wasmBinding = "none"
  /\ wasmFuncsLoaded = FALSE
  /\ wasmReady = FALSE
  /\ sess = [s \in Sessions |-> IdleSession]
  /\ handlers = [s \in Sessions |-> <<>>]
  /\ pendingInc = {}
  /\ pendingUps = {}
  /\ call = NoCall
  /\ NoHttp

\* the response to request r
Respond(r, route, cookie, status) ==
  requests' = [requests EXCEPT ![r] =
    [@ EXCEPT !.pc = "done", !.route = route, !.cookie = cookie, !.status = status]]

\* POST /admin/login: a wrong password is answered 401; otherwise a fresh
\* token, INSERT OR REPLACE of its hash, whose failure is logged only, and
\* the Set-Cookie with the token in either case
Login(r, passwordOk, stored) ==
  /\ requests[r].pc = "none"
  /\ tokens.issued < MaxTokens
  /\ IF ~passwordOk
       THEN /\ Respond(r, "POST /admin/login", 0, 401)
            /\ UNCHANGED <<db, tokens>>
       ELSE LET token == tokens.issued + 1
            IN /\ db' = IF stored THEN [db EXCEPT !.admin_session = <<Sha256Hex(token)>>] ELSE db
               /\ tokens' = [issued |-> token, valid |-> token]
               /\ Respond(r, "POST /admin/login", token, 200)
  /\ UNCHANGED <<sessVars, call, app>>

\* POST /admin/logout: DELETE FROM admin_session, whose failure is
\* swallowed, and the cookie cleared
Logout(r, deleted) ==
  /\ requests[r].pc = "none"
  /\ db' = IF deleted THEN [db EXCEPT !.admin_session = <<>>] ELSE db
  /\ tokens' = [tokens EXCEPT !.valid = 0]
  /\ Respond(r, "POST /admin/logout", 0, 200)
  /\ UNCHANGED <<sessVars, call, app>>

\* an admin API route: 403 unless isAdminRequest, whose lookup error counts
\* as not admin; then the route's query
ApiRequest(r, route, cookie, u, lookupOk) ==
  /\ requests[r].pc = "none"
  /\ IF lookupOk /\ IsAdminRequest(cookie, db.admin_session)
       THEN /\ Respond(r, route, cookie, 200)
            /\ users' = IF route = "DELETE /admin/api/users/:uuid"
                          THEN [users EXCEPT ![u] = NoRow] ELSE users
       ELSE /\ Respond(r, route, cookie, 403)
            /\ users' = users
  /\ UNCHANGED <<user_ips, now, wasmBinding, wasmFuncsLoaded, wasmReady, sess, handlers,
                 pendingInc, pendingUps, scenario, call, app, db, tokens>>

NextAdmin ==
  \/ \E r \in Requests, passwordOk \in BOOLEAN, stored \in BOOLEAN : Login(r, passwordOk, stored)
  \/ \E r \in Requests, deleted \in BOOLEAN : Logout(r, deleted)
  \/ \E r \in Requests, route \in ApiRoutes, cookie \in 0..MaxTokens, lookupOk \in BOOLEAN :
       ApiRequest(r, route, cookie, U1, lookupOk)

SpecAdmin == InitAdmin /\ [][NextAdmin]_vars

\* ------------------------------------------------- the header codec alone
\* valid headers: both ids, addon blocks of length 0..2, three ports and one
\* target of each address type (IPv4, length-prefixed domain, IPv6)
AddonBlocks == {<<>>, <<5>>, <<5, 6>>}
Ports == {80, 443, 8443}
Targets ==
  { [atype |-> 1, addr |-> <<10, 0, 0, 1>>],
    [atype |-> 2, addr |-> <<3, 97, 46, 98>>],
    [atype |-> 3, addr |-> <<32, 1, 13, 184, 0, 0, 0, 0, 0, 0, 0, 0, 0, 0, 0, 1>>] }
ValidHeaders ==
  { [id |-> id, addon |-> a, cmd |-> CmdTcp, port |-> p, atype |-> t.atype, addr |-> t.addr] :
      id \in {Uuid1Bytes, Uuid2Bytes}, a \in AddonBlocks, p \in Ports, t \in Targets }

EncodeFields(f) == EncodeHeader(Version, f.id, f.addon, f.cmd, f.port, f.atype, f.addr)

InitCodec ==
  /\ NoSessions
  /\ NoHttp
  /\ call \in { [fn |-> "decode", hdr |-> f, ready |-> r, out |-> NotRun] :
                   f \in ValidHeaders, r \in BOOLEAN }

\* the first-frame parse of the message handler applied to the encoded header
DecodeCall ==
  /\ call.fn = "decode"
  /\ call.out = NotRun
  /\ call' = [call EXCEPT !.out = ParseFirstChunk(EncodeFields(call.hdr), call.ready)]
  /\ UNCHANGED <<sessVars, httpVars>>

NextCodec == DecodeCall

SpecCodec == InitCodec /\ [][NextCodec]_vars

\* ------------------------------------------------------ expiryToISO alone
\* string | null
None == <<>>
Some(x) == <<x>>

\* !dateStr, !timeStr
Falsy(o) == o = None \/ o = Some("")

DigitVal ==
  ("0" :> 0) @@ ("1" :> 1) @@ ("2" :> 2) @@ ("3" :> 3) @@ ("4" :> 4) @@
  ("5" :> 5) @@ ("6" :> 6) @@ ("7" :> 7) @@ ("8" :> 8) @@ ("9" :> 9)

Char(str, i) == SubSeq(str, i, i)

IsDigits(str) == \A i \in 1..Len(str) : Char(str, i) \in DOMAIN DigitVal

RECURSIVE ToNum(_)
ToNum(str) ==
  IF str = "" THEN 0
  ELSE ToNum(SubSeq(str, 1, Len(str) - 1)) * 10 + DigitVal[Char(str, Len(str))]

Pad2(n) == HexDigits[(n \div 10) + 1] \o HexDigits[(n % 10) + 1]
Pad4(n) == Pad2(n \div 100) \o Pad2(n % 100)

\* timeStr.split(':').length
RECURSIVE SplitLength(_)
SplitLength(str) ==
  IF str = "" THEN 1
  ELSE (IF Char(str, 1) = ":" THEN 1 ELSE 0) + SplitLength(SubSeq(str, 2, Len(str)))

IsLeap(y) == (y % 4 = 0 /\ y % 100 # 0) \/ y % 400 = 0
DaysInMonth(y, m) ==
  IF m = 2 THEN (IF IsLeap(y) THEN 29 ELSE 28)
  ELSE IF m \in {4, 6, 9, 11} THEN 30 ELSE 31

\* MakeDay: a day past the end of its month runs on into the next one
RECURSIVE MakeDay(_, _, _)
MakeDay(y, m, d) ==
  IF d <= DaysInMonth(y, m) THEN [y |-> y, m |-> m, d |-> d]
  ELSE IF m = 12 THEN MakeDay(y + 1, 1, d - DaysInMonth(y, m))
  ELSE MakeDay(y, m + 1, d - DaysInMonth(y, m))

NaN == [nan |-> TRUE]

\* new Date(iso) for the YYYY-MM-DDTHH:mm:ssZ form, as the engine of the
\* Workers runtime reads it: month 1..12, day 1..31 whatever the month, hour
\* 0..23 or 24:00:00, minute and second 0..59; anything else is Invalid Date
DateParse(iso) ==
  IF ~(/\ Len(iso) = 20
       /\ Char(iso, 5) = "-" /\ Char(iso, 8) = "-" /\ Char(iso, 11) = "T"
       /\ Char(iso, 14) = ":" /\ Char(iso, 17) = ":" /\ Char(iso, 20) = "Z"
       /\ IsDigits(SubSeq(iso, 1, 4)) /\ IsDigits(SubSeq(iso, 6, 7))
       /\ IsDigits(SubSeq(iso, 9, 10)) /\ IsDigits(SubSeq(iso, 12, 13))
       /\ IsDigits(SubSeq(iso, 15, 16)) /\ IsDigits(SubSeq(iso, 18, 19)))
    THEN NaN
  ELSE LET y == ToNum(SubSeq(iso, 1, 4))
           m == ToNum(SubSeq(iso, 6, 7))
           d == ToNum(SubSeq(iso, 9, 10))
           h == ToNum(SubSeq(iso, 12, 13))
           mi == ToNum(SubSeq(iso, 15, 16))
           sec == ToNum(SubSeq(iso, 18, 19))
       IN IF m \notin 1..12 \/ d \notin 1..31 \/ mi \notin 0..59 \/ sec \notin 0..59 THEN NaN
          ELSE IF h \notin 0..24 \/ (h = 24 /\ (mi # 0 \/ sec # 0)) THEN NaN
          ELSE LET day == MakeDay(y, m, IF h = 24 THEN d + 1 ELSE d)
               IN [y |-> day.y, m |-> day.m, d |-> day.d,
                   h |-> IF h = 24 THEN 0 ELSE h, mi |-> mi, sec |-> sec]

\* d.toISOString()
ToISOString(t) ==
  Pad4(t.y) \o "-" \o Pad2(t.m) \o "-" \o Pad2(t.d) \o "T" \o
  Pad2(t.h) \o ":" \o Pad2(t.mi) \o ":" \o Pad2(t.sec) \o ".000Z"

\* expiryToISO(dateStr, timeStr) of utils/time.ts
ExpiryToISOString(dateStr, timeStr) ==
  IF Falsy(dateStr) \/ Falsy(timeStr) THEN None
  ELSE LET t == IF SplitLength(timeStr[1]) = 2 THEN timeStr[1] \o ":00" ELSE timeStr[1]
           iso == dateStr[1] \o "T" \o t \o "Z"
           d == DateParse(iso)
       IN IF d = NaN THEN None ELSE Some(ToISOString(d))

\* the dates and times the function is applied to: leap and common years,
\* short and long months, days up to 32, times with and without seconds and
\* past the end of the day, and a missing or empty argument
Years == {2024, 2025}
Months == {1, 2, 4, 12, 13}
Days == {1, 28, 29, 30, 31, 32}
Clock(h, mi, sec, short) == [h |-> h, mi |-> mi, sec |-> sec, short |-> short]
Clocks ==
  { Clock(0, 0, 0, FALSE), Clock(23, 59, 59, FALSE), Clock(12, 30, 0, TRUE),
    Clock(12, 30, 0, FALSE), Clock(24, 0, 0, FALSE), Clock(25, 0, 0, FALSE),
    Clock(12, 60, 0, FALSE) }

DateString(y, m, d) == Pad4(y) \o "-" \o Pad2(m) \o "-" \o Pad2(d)
TimeString(c) ==
  Pad2(c.h) \o ":" \o Pad2(c.mi) \o (IF c.short THEN "" ELSE ":" \o Pad2(c.sec))

ExpiryCalls ==
  { [fn |-> "expiry", date |-> Some(DateString(y, m, d)), time |-> Some(TimeString(c)),
     y |-> y, m |-> m, d |-> d, clock |-> c, ran |-> FALSE, out |-> None] :
      y \in Years, m \in Months, d \in Days, c \in Clocks }
  \cup
  { [fn |-> "expiry", date |-> dt, time |-> tm,
     y |-> 2025, m |-> 12, d |-> 31, clock |-> Clock(23, 59, 59, FALSE), ran |-> FALSE, out |-> None] :
      dt \in {None, Some(""), Some(DateString(2025, 12, 31))},
      tm \in {None, Some(""), Some("23:59:59")} }

InitTime ==
  /\ NoSessions
  /\ NoHttp
  /\ call \in ExpiryCalls

ExpiryCall ==
  /\ call.fn = "expiry"
  /\ ~call.ran
  /\ call' = [call EXCEPT !.ran = TRUE, !.out = ExpiryToISOString(call.date, call.time)]
  /\ UNCHANGED <<sessVars, httpVars>>

NextTime == ExpiryCall

SpecTime == InitTime /\ [][NextTime]_vars

\* ------------------------------------------------------------ properties
Handlers(s) == DOMAIN handlers[s]
Answered(h) == h.row # NoRow
Counted(h) == h.ipCount >= 0
CountIssued(h) == h.countUuid # ""
AllDone(s) == \A i \in Handlers(s) : handlers[s][i].pc = "done"

\* C1: no ACK reply goes out on a connection before one of its handlers has
\* completed the account lookup and every quota check successfully.
C1_NoAckBeforeAuthorized ==
  \A s \in Sessions :
    sess[s].acks > 0 => \E i \in Handlers(s) : handlers[s][i].verdict = "Ok"

\* C2: with an IP limit L >= 1 and exactly L distinct addresses on record, a
\* session whose own address is among them is admitted, never closed for the
\* IP limit.
C2_KnownAddressReadmitted ==
  \A s \in Sessions : \A i \in Handlers(s) :
    LET h == handlers[s][i]
    IN (Counted(h) /\ h.row.ip_limit >= 1 /\ h.ipCount = h.row.ip_limit /\ h.ipKnown)
         => h.verdict = "Ok"

\* C3: with an IP limit L >= 1 and exactly L distinct addresses on record, a
\* session from an address not among them is closed with the IP-limit reason
\* and gets no ACK reply.
C3_NewAddressRejectedSilently ==
  \A s \in Sessions : \A i \in Handlers(s) :
    LET h == handlers[s][i]
    IN (Counted(h) /\ h.row.ip_limit >= 1 /\ h.ipCount = h.row.ip_limit /\ ~h.ipKnown)
         => /\ h.verdict = "IpLimit"
            /\ sess[s].conn # "open"
            /\ h.effective => sess[s].closeReason = "IP limit exceeded"
            /\ sess[s].acks = 0

C5_ExpiredRecordsNoUsage ==
  \A s \in Sessions : \A i \in Handlers(s) :
    LET h == handlers[s][i]
    IN (Answered(h) /\ IsExpired(h.row, sess[s].acceptedAt))
         => /\ h.verdict = "Expired"
            /\ h.effective => sess[s].closeReason = "Expired"
            /\ sess[s].dispatched = <<>>

\* C6: every increment a flush dispatches carries exactly the bytes recorded
\* since the previous dispatch, once, for the session's account; a flush that
\* finds nothing recorded dispatches no increment.
C6_FlushAddsRecordedOnce ==
  /\ \A s \in Sessions : \A k \in DOMAIN sess[s].dispatched :
       LET d == sess[s].dispatched[k]
       IN d.uuid # "" /\ d.records # <<>> /\ d.delta = SumSeq(d.records) /\ d.delta > 0
  /\ \A p \in pendingInc :
       /\ p.n \in DOMAIN sess[p.s].dispatched
       /\ sess[p.s].dispatched[p.n].delta = p.delta
       /\ sess[p.s].dispatched[p.n].uuid = p.uuid
  /\ \A s \in Sessions : sess[s].idleFlush => sess[s].sessionUsage = 0

C6_Witness ==
  \E s \in Sessions :
    LET q == sess[s].dispatched
    IN /\ q # <<>>
       /\ Len(q[Len(q)].records) = 2
       /\ q[Len(q)].delta = q[Len(q)].records[1] + q[Len(q)].records[2]
       /\ sess[s].idleFlush
       /\ sess[s].conn = "open"

\* C7: once an authorized session is closed and its handlers have finished,
\* the increments it dispatched add up to the bytes it recorded.
C7_NoResidualOnClose ==
  \A s \in Sessions :
    (sess[s].conn = "closed" /\ AllDone(s)
       /\ \E i \in Handlers(s) : handlers[s][i].verdict = "Ok")
      => SumDeltas(sess[s].dispatched) = sess[s].recorded

\* C8: a first frame shorter than the minimum header leaves the session
\* waiting: no close, no error, no store access.
C8_TruncatedFrameWaits ==
  \A s \in Sessions : \A i \in Handlers(s) :
    LET h == handlers[s][i]
    IN (h.parsedAs # "none" /\ h.firstLen < MinHeaderLen)
         => h.pc = "done" /\ h.verdict = "none" /\ h.uuid = ""

\* C9: a first frame with an unsupported version, command or address type is
\* rejected with the parse error reason before any account lookup, IP upsert
\* or ACK.
C9_InvalidHeaderRejected ==
  \A s \in Sessions : \A i \in Handlers(s) :
    LET h == handlers[s][i]
    IN h.parsedAs = "Invalid"
         => h.pc = "done" /\ h.verdict = "ParseError" /\ h.uuid = "" /\ ~h.upserted

\* C10: when the account lookup fails with a store error the connection is
\* closed, no ACK is sent on it and no IP record is written for it.
C10_LookupErrorFailsClosed ==
  \A s \in Sessions :
    (\E i \in Handlers(s) : handlers[s][i].verdict = "StoreError")
      => /\ sess[s].conn # "open"
         /\ sess[s].acks = 0
         /\ \A j \in Handlers(s) : ~handlers[s][j].upserted

\* C11: a session admitted after a valid header and all checks has an
\* upstream connection to the (address, port) decoded from its header.
C11_AdmittedSessionRelays ==
  \A s \in Sessions : \A i \in Handlers(s) :
    LET h == handlers[s][i]
    IN (h.verdict = "Ok" /\ h.ipKnown = FALSE) => sess[s].upstream = h.target

\* C12: the four authorization failures close the connection with four
\* pairwise distinct reasons, none of them the reason of a parse or internal
\* error, and a connection carries the reason of the failure that closed it.
C12_DistinctCloseReasons ==
  /\ \A v \in AuthFailures : \A w \in Failures :
       v # w => CloseReason(v) # CloseReason(w)
  /\ \A s \in Sessions : \A i \in Handlers(s) :
       LET h == handlers[s][i]
       IN (h.effective /\ h.verdict \in Failures)
            => /\ sess[s].conn # "open"
               /\ sess[s].closeReason = CloseReason(h.verdict)

C12_Witness ==
  \E s \in Sessions : \E i \in Handlers(s) :
    /\ handlers[s][i].effective /\ handlers[s][i].verdict = "IpLimit"
    /\ sess[s].conn = "closing"
    /\ sess[s].closeReason = "IP limit exceeded"
    /\ sess[s].closeReason \notin {"Authentication failed", "Expired",
                                    "Traffic limit exceeded", "Parse error"}

\* C13: decoding the encoding of a valid header gives back the account id in
\* its 8-4-4-4-12 rendering, the command, the port, the address type and the
\* target address, for every addon length and address type.
C13_HeaderRoundTrip ==
  (call.fn = "decode" /\ call.out # NotRun)
    => call.out = [uuid |-> UuidFmt(call.hdr.id), command |-> call.hdr.cmd,
                   address |-> call.hdr.addr, address_type |-> call.hdr.atype,
                   port |-> call.hdr.port]

\* C14: a chunk taken up on an open, authenticated session while one of its
\* usage increments is still pending, or after one has failed, is processed
\* and answered in the same step; a pending or failed increment never closes
\* the connection.
C14_FlushNeverGates ==
  /\ \A s \in Sessions : \A i \in Handlers(s) :
       LET h == handlers[s][i]
       IN h.gate # "none" => h.pc = "done" /\ h.acked /\ h.verdict = "none"
  /\ \A s \in Sessions :
       (sess[s].conn = "closing" /\ FlushState(s) # "none")
         => \E i \in Handlers(s) : handlers[s][i].effective

C14_Witness ==
  \E s \in Sessions : \E i \in Handlers(s) :
    /\ handlers[s][i].gate = "failed"
    /\ handlers[s][i].acked
    /\ sess[s].flushFailed
    /\ sess[s].conn = "open"
    /\ sess[s].acks = 2

\* C15: expiryToISO gives 'YYYY-MM-DDTHH:MM:SS.000Z' for a valid calendar
\* date and time of day (HH:MM read as HH:MM:00), and null when an argument
\* is missing or empty or the pair is not a valid date-time.
C15_ExpiryToISO ==
  (call.fn = "expiry" /\ call.ran)
    => LET c == call.clock
           valid == /\ call.m \in 1..12
                    /\ call.d \in 1..DaysInMonth(call.y, call.m)
                    /\ c.h \in 0..23 /\ c.mi \in 0..59 /\ c.sec \in 0..59
       IN IF Falsy(call.date) \/ Falsy(call.time) \/ ~valid THEN call.out = None
          ELSE call.out = Some(call.date[1] \o "T" \o Pad2(c.h) \o ":" \o Pad2(c.mi)
                               \o ":" \o Pad2(c.sec) \o ".000Z")

\* C16: in every state the bytes handed to the store plus the accumulator
\* equal the bytes recorded, and the accumulator holds exactly the records
\* made since the last hand-over, whatever is still pending in the store.
C16_UsageConserved ==
  \A s \in Sessions :
    /\ sess[s].recorded = SumDeltas(sess[s].dispatched) + sess[s].sessionUsage
    /\ sess[s].sessionUsage = SumSeq(sess[s].sinceFlush)

C16_Witness ==
  \E s \in Sessions :
    /\ sess[s].conn = "closed"
    /\ Len(sess[s].dispatched) = 2
    /\ sess[s].dispatched[2].records # <<>>
    /\ Cardinality({ p \in pendingInc : p.s = s }) = 2
    /\ sess[s].sessionUsage = 0
    /\ sess[s].recorded = 2 * Len(HdrU1)
    /\ \E i \in Handlers(s) : handlers[s][i].verdict = "Ok"

\* C17: a handler's checks run in the order lookup, expiry, traffic quota,
\* IP quota and stop at the first failure: the verdict is that of the
\* earliest failing check, and the distinct-IP count is queried only after
\* the account was found, unexpired and under its traffic quota.
C17_ChecksInOrder ==
  \A s \in Sessions : \A i \in Handlers(s) :
    LET h == handlers[s][i]
    IN /\ h.verdict = "Unknown" => ~Answered(h) /\ ~CountIssued(h)
       /\ Answered(h) =>
            /\ IsExpired(h.row, h.lookedAt) => h.verdict = "Expired" /\ ~CountIssued(h)
            /\ (~IsExpired(h.row, h.lookedAt) /\ TrafficExceeded(h.row))
                 => h.verdict = "Traffic" /\ ~CountIssued(h)
            /\ (~IsExpired(h.row, h.lookedAt) /\ ~TrafficExceeded(h.row) /\ IpLimitSet(h.row))
                 => CountIssued(h)
            /\ h.verdict = "IpLimit" => Counted(h) /\ IpLimitReached(h.ipCount, h.row)
       /\ CountIssued(h) => Answered(h)
       /\ (h.effective /\ h.verdict \in AuthFailures)
            => sess[s].closeReason = CloseReason(h.verdict)

C17_Witness ==
  \E s \in Sessions : \E i \in Handlers(s) :
    LET h == handlers[s][i]
    IN /\ Answered(h)
       /\ IsExpired(h.row, h.lookedAt) /\ TrafficExceeded(h.row) /\ IpLimitSet(h.row)
       /\ IpLimitReached(CountDistinctIps(user_ips, h.uuid), h.row)
       /\ h.verdict = "Expired" /\ h.effective
       /\ sess[s].closeReason = "Expired"
       /\ ~CountIssued(h)

\* C18: when the distinct-IP count query of an account with an IP limit
\* fails, the session is closed: it is not answered and does not stay open
\* with the IP quota unchecked.
C18_CountErrorTerminal ==
  \A s \in Sessions : \A i \in Handlers(s) :
    LET h == handlers[s][i]
    IN (CountIssued(h) /\ h.pc = "done" /\ ~Counted(h))
         => sess[s].conn # "open" /\ ~h.acked

\* C19: the distinct source addresses recorded for an account with IP limit
\* L exceed L by at most one, however its sessions' count queries and
\* deferred upserts interleave.
C19_OvershootAtMostOne ==
  \A u \in DOMAIN users :
    (users[u] # NoRow /\ IpLimitSet(users[u]))
      => CountDistinctIps(user_ips, u) <= users[u].ip_limit + 1

\* C20: an IP record is written only by a handler that passed all four
\* checks, and never for an account whose authorization fails on the same
\* connection: a connection that fails a check leaves user_ips as it was.
C20_IpRecordOnlyAfterChecks ==
  \A s \in Sessions : \A i \in Handlers(s) :
    LET h == handlers[s][i]
    IN h.upserted
         => /\ h.verdict = "Ok"
            /\ \A j \in Handlers(s) :
                 handlers[s][j].uuid = h.wrote => handlers[s][j].verdict \notin AuthFailures

\* C21: at most one message of a connection is successfully parsed as its
\* header and authorized, and the connection's identity, also the one its
\* flushes use, is the account of that header from then on.
C21_IdentityFixedOnce ==
  \A s \in Sessions :
    /\ Cardinality({ i \in Handlers(s) : handlers[s][i].uuid # "" }) <= 1
    /\ \A i \in Handlers(s) :
         handlers[s][i].uuid # "" => sess[s].uuidStr = handlers[s][i].uuid
    /\ \A k \in DOMAIN sess[s].dispatched :
         \A i \in Handlers(s) :
           handlers[s][i].uuid # "" => sess[s].dispatched[k].uuid = handlers[s][i].uuid

\* the deltas of the increments the store has applied to account u
RECURSIVE SumApplied(_, _)
SumApplied(q, u) ==
  IF q = <<>> THEN 0
  ELSE (IF Head(q).status = "applied" /\ Head(q).uuid = u THEN Head(q).delta ELSE 0)
       + SumApplied(Tail(q), u)

RECURSIVE AppliedTo(_, _)
AppliedTo(u, n) == IF n = 0 THEN 0 ELSE SumApplied(sess[n].dispatched, u) + AppliedTo(u, n - 1)

InitialUsed(u) == IF u = U1 THEN scenario.u1.traffic_used ELSE 0

\* C22: every increment carries a strictly positive delta, and an account's
\* traffic counter is its initial value plus the deltas of the increments
\* the store has applied, whichever sessions they came from and however
\* they interleaved.
C22_CounterIsSumOfDeltas ==
  /\ \A s \in Sessions : \A k \in DOMAIN sess[s].dispatched :
       sess[s].dispatched[k].delta >= 1
  /\ \A u \in DOMAIN users :
       users[u] # NoRow
         => users[u].traffic_used = InitialUsed(u) + AppliedTo(u, NumSessions)

C22_Witness ==
  \E s \in Sessions : \E t \in Sessions :
    /\ s # t
    /\ \E k \in DOMAIN sess[s].dispatched :
         sess[s].dispatched[k].status = "applied" /\ sess[s].dispatched[k].uuid = U1
    /\ \E k \in DOMAIN sess[t].dispatched :
         sess[t].dispatched[k].status = "applied" /\ sess[t].dispatched[k].uuid = U1
    /\ users[U1].traffic_used = 2 * Len(HdrU1)

\* the accumulator and the identity of a connection
Local(s) == <<sess[s].sessionUsage, sess[s].uuidStr>>

\* C23: every increment a connection dispatches names an account taken from
\* a header received on that connection, and a step of another connection
\* (its record, flush, close or continuation) never changes a connection's
\* accumulator or identity.
C23_NoSharedSessionState ==
  /\ [](\A s \in Sessions : \A k \in DOMAIN sess[s].dispatched :
          \E i \in Handlers(s) : handlers[s][i].uuid = sess[s].dispatched[k].uuid)
  /\ [][\A s \in Sessions : \A t \in Sessions \ {s} :
          (sess'[t] # sess[t] \/ handlers'[t] # handlers[t]) => Local(s)' = Local(s)]_vars

C23_Witness ==
  /\ sess[1].uuidStr = U1 /\ sess[2].uuidStr = U2
  /\ sess[1].dispatched # <<>> /\ sess[2].dispatched # <<>>
  /\ sess[1].dispatched[1].uuid = U1 /\ sess[2].dispatched[1].uuid = U2
  /\ sess[1].conn = "open" /\ sess[2].conn = "open"
  /\ \E p \in pendingInc : p.s = 1
  /\ \E p \in pendingInc : p.s = 2

\* C24: once the close handler has run, the connection dispatches no further
\* usage increment and no IP upsert and sends nothing more to the client.
C24_ClosedIsTerminal ==
  [][\A s \in Sessions :
       sess[s].conn = "closed"
         => /\ Len(sess'[s].dispatched) = Len(sess[s].dispatched)
            /\ sess'[s].acks = sess[s].acks
            /\ \A i \in Handlers(s) : handlers'[s][i].upserted = handlers[s][i].upserted]_vars

\* C25: an open connection on which no frame has arrived is eventually
\* closed by the server, unless a frame arrives.
C25_HeaderWaitBounded ==
  \A s \in Sessions :
    (sess[s].conn = "open" /\ handlers[s] = <<>>)
      ~> (sess[s].conn # "open" \/ handlers[s] # <<>>)

\* C26: an IP limit of 0 is a limit: a handler that finds its account
\* unexpired, under its traffic quota and with IP limit 0, on a connection
\* whose source address is not on record, closes with the IP-limit reason.
C26_ZeroIpLimitIsSet ==
  \A s \in Sessions : \A i \in Handlers(s) :
    LET h == handlers[s][i]
    IN (/\ Answered(h) /\ h.pc = "done"
        /\ h.row.ip_limit = 0
        /\ ~IsExpired(h.row, h.lookedAt) /\ ~TrafficExceeded(h.row)
        /\ ~h.ipKnown)
         => /\ h.verdict = "IpLimit"
            /\ sess[s].closeReason = CloseReason("IpLimit")

\* C27: a handler authorizes only an account whose stored expiry denotes
\* an instant strictly later than the time of its check.
C27_AuthorizedHasFutureExpiry ==
  \A s \in Sessions : \A i \in Handlers(s) :
    LET h == handlers[s][i]
    IN h.verdict = "Ok"
         => /\ ExpiryToISO(h.row) # NoExpiry
            /\ ExpiryToISO(h.row) > h.lookedAt

\* C28: however the first requests interleave, one Hono instance is created
\* and registerRoutes is called once; a request is dispatched only to that
\* instance, after the routes were registered and the body of initializeApp
\* has returned; requests that come later are dispatched to the same one.
C28_AppInitializedOnce ==
  /\ app.created <= 1
  /\ app.registrations <= 1
  /\ app.appInstance # 0 => app.registrations = 1
  /\ \A r \in Requests :
       requests[r].dispatchedTo # 0 \/ requests[r].pc \notin {"none", "importIndex", "awaitInit"}
         => /\ requests[r].dispatchedTo = 1
            /\ app.appInstance = 1
            /\ app.registrations = 1
            /\ app.initPromise # 0 /\ requests[app.initPromise].body = "resolved"

C28_Witness ==
  \E r1, r2, r3 \in Requests :
    /\ requests[r1].sawInit = "null" /\ requests[r1].dispatchedTo = 1
    /\ requests[r2].sawInit = "pending" /\ requests[r2].dispatchedTo = 1
    /\ requests[r3].sawInit = "resolved" /\ requests[r3].dispatchedTo = 1
    /\ app.created = 1

\* C29: an admin API request is served only if its cookie's token hashes to
\* the stored session hash, and a request whose token is not the one of the
\* most recent login, or that comes after a logout, is answered 403 and
\* leaves the accounts as they were.
C29_OnlyCurrentTokenServed ==
  [][\A r \in Requests :
       (requests[r].pc = "none" /\ requests'[r].pc = "done" /\ requests'[r].route \in ApiRoutes)
         => /\ requests'[r].status # 403
                 => IsAdminRequest(requests'[r].cookie, db.admin_session)
            /\ requests'[r].cookie # tokens.valid
                 => requests'[r].status = 403 /\ users' = users]_vars

\* C30: a request that has returned from ensureTablesInitialized and goes
\* on to query the store finds no table-creation batch in flight.
C30_TablesReadyOnReturn ==
  \A r \in Requests : requests[r].pc = "ensured" => db.batch # "running"

====
